---- MODULE Spec2Model ----
(***************************************************************************)
(* pyxantech: the command/response engine of src/pyxantech/__init__.py.    *)
(*                                                                         *)
(* Bytes and characters are one-character strings, byte strings and text   *)
(* are sequences of them.  A controller is one lock, one serial port and   *)
(* the callers (threads or tasks) that run its public operations.          *)
(***************************************************************************)
EXTENDS Integers, Sequences, FiniteSets, TLC

\* ------------------------------------------------------------------ bounds

\* Concurrent callers of one controller instance.
NCallers == 2
\* Longest reply the device sends in the framing specification.
MaxStream == 4
\* Largest zone_status_skip a device declares in the framing specification.
MaxSkip == 2
\* How far below 0 and above the declared maximum the magnitudes are drawn.
Margin == 12
\* Controllers one run constructs.
MaxBuilt == 2

Callers == 1..NCallers
NoOwner == 0

\* ------------------------------------------------------------------ text

Min2(a, b) == IF a < b THEN a ELSE b
Max2(a, b) == IF a > b THEN a ELSE b

DigitChars == <<"0", "1", "2", "3", "4", "5", "6", "7", "8", "9">>
IsDigit(ch) == \E i \in 1..10 : DigitChars[i] = ch
DigitValue(ch) == (CHOOSE i \in 1..10 : DigitChars[i] = ch) - 1

\* str(n) as str.format renders an int placeholder.
RECURSIVE Str(_)
Str(n) ==
    IF n < 0 THEN <<"-">> \o Str(0 - n)
    ELSE IF n < 10 THEN <<DigitChars[n + 1]>>
    ELSE Str(n \div 10) \o <<DigitChars[(n % 10) + 1]>>

\* int(s) for a string of decimal digits (leading zeros allowed).
RECURSIVE ParseInt(_)
ParseInt(s) ==
    IF Len(s) = 0 THEN 0
    ELSE 10 * ParseInt(SubSeq(s, 1, Len(s) - 1)) + DigitValue(s[Len(s)])

\* ord(ch) for the characters the model uses.
Ord(ch) ==
    CASE ch = "\n" -> 10 [] ch = "\r" -> 13 [] ch = "," -> 44 [] ch = "?" -> 63
      [] ch = "A" -> 65 [] ch = "E" -> 69 [] ch = "K" -> 75 [] ch = "O" -> 79
      [] ch = "P" -> 80 [] ch = "R" -> 82 [] ch = "V" -> 86 [] ch = "Z" -> 90
      [] OTHER -> 48 + DigitValue(ch)

HexChars == <<"0", "1", "2", "3", "4", "5", "6", "7", "8", "9",
              "a", "b", "c", "d", "e", "f">>

RECURSIVE HexDigits(_)
HexDigits(n) ==
    IF n < 16 THEN <<HexChars[n + 1]>>
    ELSE HexDigits(n \div 16) \o <<HexChars[(n % 16) + 1]>>

\* hex(a) of a byte: '0xd', '0x5a'.
Hex(ch) == <<"0", "x">> \o HexDigits(Ord(ch))

\* Python's seq[-n:]: the whole of seq when n = 0 or n >= len(seq).
LastBytes(seq, n) ==
    IF n = 0 \/ n >= Len(seq) THEN seq
    ELSE SubSeq(seq, Len(seq) - n + 1, Len(seq))

\* ------------------------------------------------------------ descriptors

\* Command templates of the protocol: literal characters and {name} fields.
Commands ==
    [zone_status   |-> <<"?", "{zone}">>,
     power_on      |-> <<"P", "{zone}", ",", "1">>,
     power_off     |-> <<"P", "{zone}", ",", "0">>,
     mute_on       |-> <<"M", "{zone}", ",", "1">>,
     mute_off      |-> <<"M", "{zone}", ",", "0">>,
     set_volume    |-> <<"V", "O", "L", "{zone}", ",", "{volume}">>,
     set_treble    |-> <<"T", "R", "{zone}", ",", "{treble}">>,
     set_bass      |-> <<"B", "S", "{zone}", ",", "{bass}">>,
     set_balance   |-> <<"B", "L", "{zone}", ",", "{balance}">>,
     set_source    |-> <<"S", "R", "{zone}", ",", "{source}">>,
     all_zones_off |-> <<"X">>,
     power_status  |-> <<"?", "P">>,
     volume_status |-> <<"?", "V">>]

FieldOf(token) ==
    CASE token = "{zone}"    -> "zone"
      [] token = "{volume}"  -> "volume"
      [] token = "{treble}"  -> "treble"
      [] token = "{bass}"    -> "bass"
      [] token = "{balance}" -> "balance"
      [] token = "{source}"  -> "source"
      [] OTHER               -> ""

\* The success acknowledgement of a restore step, and other device replies.
AckReply == <<"O", "K", "\r">>
NakReply == <<"E", "R", "\r">>

\* One entry of DEVICE_CONFIG: the illustrative device of the specification.
DeviceDescriptor ==
    [zones            |-> {11, 12},
     sources          |-> {1, 2, 3},
     max_volume       |-> 38,
     max_treble       |-> 14,
     max_bass         |-> 14,
     max_balance      |-> 20,
     zone_status_skip |-> 0]

\* Values of a status dictionary: Python str, bool and int are distinct.
StrV(s) == [t |-> "str", s |-> s, b |-> FALSE, i |-> 0]
BoolV(b) == [t |-> "bool", s |-> <<>>, b |-> b, i |-> 0]
IntV(i) == [t |-> "int", s |-> <<>>, b |-> FALSE, i |-> i]

\* status_translation tables: field -> (raw token -> canonical value).
NoTranslation == <<>>
TranslateToTrue == [power |-> [tok \in {<<"0", "1">>} |-> BoolV(TRUE)]]
TranslateToToken ==
    [power |-> [tok \in {<<"0", "1">>, <<"0", "0">>} |->
                   IF tok = <<"0", "1">> THEN StrV(<<"1">>) ELSE StrV(<<"0">>)]]

\* A response pattern: a literal first character, then comma-separated
\* named (\d+) groups.  The zone_status pattern of RS232_RESPONSE_PATTERNS:
\* Z,(?P<zone>\d+),(?P<power>\d+),(?P<volume>\d+),(?P<source>\d+)
StatusPattern ==
    [first |-> "Z", fields |-> <<"zone", "power", "volume", "source">>]

\* The 'responses' patterns of the status sub-commands.
Responses ==
    [power_status  |-> [first |-> "P", fields |-> <<"power">>],
     volume_status |-> [first |-> "V", fields |-> <<"volume">>]]

\* A restore_zone argument: a status dictionary as zone_status returns it.
NoStatus == [zone |-> 0, power |-> FALSE, volume |-> 0, source |-> 0]

\* One entry of PROTOCOL_CONFIG.  has_restore_zone is whether the extras
\* hold a 'restore_zone' key at all.
ProtocolDescriptor ==
    [command_eol          |-> <<"\r">>,
     command_separator    |-> <<",">>,
     response_eol         |-> <<"\r">>,
     status_translation   |-> TranslateToTrue,
     commands             |-> Commands,
     responses            |-> Responses,
     zone_status          |-> StatusPattern,
     has_restore_zone     |-> TRUE,
     restore_zone         |-> <<"power", "volume", "source">>,
     restore_success      |-> AckReply,
     zone_status_commands |-> <<"power_status", "volume_status">>]

VARIABLES
    variant,     \* "sync": get_amp_controller, "async": async_get_amp_controller
    device,      \* DEVICE_CONFIG[amp_type]
    protocol,    \* PROTOCOL_CONFIG[protocol of amp_type]
    lock,        \* the caller that holds the instance lock, or NoOwner
    pc,          \* each caller's position in its call
    call,        \* each caller's operation and arguments
    step,        \* each caller's index in a multi-step sequence
    result,      \* each caller's accumulator of _send_request
    out,         \* each caller's outcome: return value or raised error
    sent,        \* each caller's requests written to the port by its call
    warned,      \* each caller's steps that logged a warning
    io,          \* each caller's port calls and bytes read in its last exchange
    port,        \* the serial port: pending input, writes, exchange in flight
    registry,    \* DEVICE_CONFIG[amp_type]['rs232'] of every registered type
    controllers,       \* what each get_amp_controller / async_get_amp_controller gave
    locks,       \* the lock objects created so far: each one's holder
    user         \* each caller's use of a constructed controller

vars == <<variant, device, protocol, lock, pc, call, step, result, out, sent,
          warned, io, port, registry, controllers, locks, user>>

get_device_config(key) == device[key]
get_protocol_config(key) == protocol[key]

\* ---------------------------------------------------------------- encoder

\* A controllers command: the bytes, or the exception the builder raised.
Built(bytes) == [err |-> "none", bytes |-> bytes]
Raised(err) == [err |-> err, bytes |-> <<>>]

\* str.format(**args) on a template: each {name} becomes str(args[name]).
RECURSIVE Format(_, _)
Format(template, args) ==
    IF Len(template) = 0 THEN <<>>
    ELSE LET token == Head(template)
             text == IF FieldOf(token) = "" THEN <<token>>
                     ELSE Str(args[FieldOf(token)])
         IN  text \o Format(Tail(template), args)

\* _command: template + separator + eol, formatted and encoded.  A format
\* code without a template is None + str (TypeError); a field of the
\* template that args does not hold is a KeyError.
_command(format_code, args) ==
    LET rs232_commands == get_protocol_config("commands")
    IN  IF format_code \notin DOMAIN rs232_commands THEN Raised("TypeError")
        ELSE LET command == rs232_commands[format_code]
                            \o get_protocol_config("command_separator")
                            \o get_protocol_config("command_eol")
                 missing == \E i \in 1..Len(command) :
                               /\ FieldOf(command[i]) # ""
                               /\ FieldOf(command[i]) \notin DOMAIN args
             IN  IF missing THEN Raised("KeyError")
                 ELSE Built(Format(command, args))

\* assert zone in get_device_config(amp_type, 'zones')
ZoneDeclared(zone) == zone \in get_device_config("zones")

\* A builder that accepts any source.
SourceUnchecked(source) == TRUE

\* assert source in get_device_config(amp_type, 'sources')
SourceDeclared(source) == source \in get_device_config("sources")

\* A clamp without its lower bound.
ClampedAbove(value, maximum) == Min2(value, maximum)

\* max(0, min(value, maximum))
Clamped(value, maximum) == Max2(0, Min2(value, maximum))

_zone_status_cmd(zone) ==
    IF ~ZoneDeclared(zone) THEN Raised("AssertionError")
    ELSE _command("zone_status", [zone |-> zone])

_set_power_cmd(zone, power) ==
    IF ~ZoneDeclared(zone) THEN Raised("AssertionError")
    ELSE IF power THEN _command("power_on", [zone |-> zone])
    ELSE _command("power_off", [zone |-> zone])

_set_mute_cmd(zone, mute) ==
    IF ~ZoneDeclared(zone) THEN Raised("AssertionError")
    ELSE IF mute THEN _command("mute_on", [zone |-> zone])
    ELSE _command("mute_off", [zone |-> zone])

_set_volume_cmd(zone, volume) ==
    IF ~ZoneDeclared(zone) THEN Raised("AssertionError")
    ELSE _command("set_volume",
                  [zone |-> zone,
                   volume |-> Clamped(volume, get_device_config("max_volume"))])

_set_treble_cmd(zone, treble) ==
    IF ~ZoneDeclared(zone) THEN Raised("AssertionError")
    ELSE _command("set_treble",
                  [zone |-> zone,
                   treble |-> Clamped(treble, get_device_config("max_treble"))])

_set_bass_cmd(zone, bass) ==
    IF ~ZoneDeclared(zone) THEN Raised("AssertionError")
    ELSE _command("set_bass",
                  [zone |-> zone,
                   bass |-> Clamped(bass, get_device_config("max_bass"))])

_set_balance_cmd(zone, balance) ==
    IF ~ZoneDeclared(zone) THEN Raised("AssertionError")
    ELSE _command("set_balance",
                  [zone |-> zone,
                   balance |-> Clamped(balance, get_device_config("max_balance"))])

_set_source_cmd(zone, source) ==
    IF ~ZoneDeclared(zone) THEN Raised("AssertionError")
    ELSE IF ~SourceDeclared(source) THEN Raised("AssertionError")
    ELSE _command("set_source", [zone |-> zone, source |-> source])

\* ---------------------------------------------------------------- decoder

\* How many digits follow from position i of s.
RECURSIVE DigitRun(_, _)
DigitRun(s, i) ==
    IF i > Len(s) \/ ~IsDigit(s[i]) THEN 0 ELSE 1 + DigitRun(s, i + 1)

\* The k remaining (\d+) groups of the pattern, comma separated, from i.
RECURSIVE MatchGroups(_, _, _)
MatchGroups(s, i, k) ==
    LET n == DigitRun(s, i)
        token == SubSeq(s, i, i + n - 1)
    IN  IF n = 0 THEN [ok |-> FALSE, groups |-> <<>>]
        ELSE IF k = 1 THEN [ok |-> TRUE, groups |-> <<token>>]
        ELSE IF i + n <= Len(s) /\ s[i + n] = ","
             THEN LET rest == MatchGroups(s, i + n + 1, k - 1)
                  IN  [ok |-> rest.ok, groups |-> <<token>> \o rest.groups]
             ELSE [ok |-> FALSE, groups |-> <<>>]

MatchAt(pattern, s, i) ==
    IF i + 1 <= Len(s) /\ s[i] = pattern.first /\ s[i + 1] = ","
    THEN MatchGroups(s, i + 2, Len(pattern.fields))
    ELSE [ok |-> FALSE, groups |-> <<>>]

\* re.search(pattern, string): the leftmost match, or no match.
re_search(pattern, s) ==
    IF \E i \in 1..Len(s) : MatchAt(pattern, s, i).ok
    THEN LET m == MatchAt(pattern, s,
                          CHOOSE i \in 1..Len(s) :
                              /\ MatchAt(pattern, s, i).ok
                              /\ \A j \in 1..(i - 1) : ~MatchAt(pattern, s, j).ok)
         IN  [ok |-> TRUE, groups |-> m.groups, fields |-> pattern.fields]
    ELSE [ok |-> FALSE, groups |-> <<>>, fields |-> pattern.fields]

\* A groupdict() that fills in the fields a pattern does not capture.
GroupsWithDefaults(match) ==
    [key \in {match.fields[k] : k \in 1..Len(match.fields)}
              \cup {"mute", "treble", "bass", "balance"} |->
        IF \E k \in 1..Len(match.fields) : match.fields[k] = key
        THEN StrV(match.groups[CHOOSE k \in 1..Len(match.fields) :
                                  match.fields[k] = key])
        ELSE StrV(<<"0">>)]

\* match.groupdict(): field name -> matched text.
groupdict(match) ==
    [key \in {match.fields[k] : k \in 1..Len(match.fields)} |->
        StrV(match.groups[CHOOSE k \in 1..Len(match.fields) :
                             match.fields[k] = key])]

\* The translation loop of from_string.
Translated(match_dict, status_translation) ==
    [key \in DOMAIN match_dict |->
        IF /\ key \in DOMAIN status_translation
           /\ match_dict[key].t = "str"
           /\ match_dict[key].s \in DOMAIN status_translation[key]
        THEN status_translation[key][match_dict[key].s]
        ELSE match_dict[key]]

BoolKeys == {"power", "mute", "paged", "linked", "pa"}
IntKeys == {"zone", "volume", "treble", "bass", "balance", "source"}

\* value in ('1', '01'): a bool or an int never equals a str.
InOneTokens(v) == v.t = "str" /\ v.s \in {<<"1">>, <<"0", "1">>}

retype_bools(dict) ==
    [key \in DOMAIN dict |->
        IF key \in BoolKeys THEN BoolV(InOneTokens(dict[key])) ELSE dict[key]]

\* An int() that yields nothing of its argument.
IntOfNone(v) == 0

\* int(value): int('01') = 1, int(True) = 1.
ToInt(v) ==
    CASE v.t = "str"  -> ParseInt(v.s)
      [] v.t = "bool" -> IF v.b THEN 1 ELSE 0
      [] OTHER        -> v.i

retype_ints(dict) ==
    [key \in DOMAIN dict |->
        IF key \in IntKeys THEN IntV(ToInt(dict[key])) ELSE dict[key]]

\* ZoneStatus.__init__
ZoneStatus(status) == retype_ints(retype_bools(status))

\* What a call hands back: a value, None (absent), or a raised exception.
\* partial holds what a SerialTimeoutException's message lists: the hex
\* code of each byte received.
Returned(dict) ==
    [kind |-> "return", err |-> "none", absent |-> FALSE, status |-> dict,
     partial |-> <<>>]
ReturnedNone ==
    [kind |-> "return", err |-> "none", absent |-> TRUE, status |-> <<>>,
     partial |-> <<>>]
Raise(err) ==
    [kind |-> "raise", err |-> err, absent |-> FALSE, status |-> <<>>,
     partial |-> <<>>]
NoOutcome ==
    [kind |-> "none", err |-> "none", absent |-> FALSE, status |-> <<>>,
     partial |-> <<>>]

\* ZoneStatus.from_string: groupdict() is called on the result of
\* re.search before the result is tested, so no match is an AttributeError.
from_string(string) ==
    IF Len(string) = 0 THEN ReturnedNone
    ELSE LET match == re_search(get_protocol_config("zone_status"), string)
         IN  IF ~match.ok THEN Raise("AttributeError")
             ELSE Returned(ZoneStatus(
                      Translated(groupdict(match),
                                 get_protocol_config("status_translation"))))

\* ------------------------------------------------------------- exclusivity

\* A wrapper that does not wait for the lock.
LockNeverAwaited(c) == TRUE

\* `with lock:` / `async with lock:` on entry: the caller proceeds once no
\* one holds the lock.
LockAvailable(c) == lock = NoOwner

\* A wrapper that releases on return only: an exception leaves the lock
\* with the caller.
LockKeptOnRaise(c, outcome) ==
    IF outcome.kind = "raise" THEN lock
    ELSE IF lock = c THEN NoOwner ELSE lock

\* `with lock:` / `async with lock:` on exit, by return or by exception.
LockAfterExit(c, outcome) == IF lock = c THEN NoOwner ELSE lock

\* A pause taken outside the lock.
LockDroppedForPause(c) == NoOwner

\* time.sleep(0.1) / await asyncio.sleep(0.1) inside the decorated method:
\* the lock stays with its holder.
LockDuringPause(c) == lock

Config == <<variant, device, protocol, registry, controllers, locks, user>>

\* The call ends, leaving the port as given: the wrapper leaves the `with`
\* block, the method's local variables (accumulator, loop index) are gone.
ExitWith(c, outcome, port_after) ==
    /\ pc' = [pc EXCEPT ![c] = "done"]
    /\ out' = [out EXCEPT ![c] = outcome]
    /\ lock' = LockAfterExit(c, outcome)
    /\ result' = [result EXCEPT ![c] = <<>>]
    /\ step' = [step EXCEPT ![c] = 1]
    /\ port' = port_after
    /\ UNCHANGED <<Config, call, sent, warned>>

Exit(c, outcome) == ExitWith(c, outcome, port) /\ UNCHANGED io

\* ---------------------------------------------------------------- exchange

NewExchange == <<"reset_output_buffer", "reset_input_buffer", "write", "flush">>

\* An end-of-reply test that ignores skip.
FramedWithoutSkip(bytes, skip) ==
    LET response_eol == get_protocol_config("response_eol")
    IN  LastBytes(bytes, Len(response_eol)) = response_eol

\* The end-of-reply test of the read loop.
Framed(bytes, skip) ==
    LET response_eol == get_protocol_config("response_eol")
    IN  /\ Len(bytes) > skip
        /\ LastBytes(bytes, Len(response_eol)) = response_eol

\* A reset that leaves the bytes already received in the input buffer.
InputBufferKept(rx) == rx

\* port.reset_input_buffer(): what was received and not read is dropped.
reset_input_buffer(rx) == <<>>

\* _send_request up to the read loop: both buffers are reset, the request
\* is written and flushed.  The device then answers with one of Replies.
_send_request(c, request, Replies) ==
    /\ \E reply \in Replies :
          port' = [rx      |-> reset_input_buffer(port.rx) \o reply,
                   nwrites |-> port.nwrites + 1,
                   owner   |-> c,
                   clash   |-> port.clash \/ port.owner \notin {NoOwner, c}]
    /\ io' = [io EXCEPT ![c] = [ops |-> NewExchange, got |-> <<>>]]
    /\ result' = [result EXCEPT ![c] = <<>>]
    /\ sent' = [sent EXCEPT ![c] = Append(@, request)]
    /\ pc' = [pc EXCEPT ![c] = "reading"]
    /\ UNCHANGED <<Config, call, lock, out, step, warned>>

\* The suspend-based variant's protocol.send: the same exchange.
protocol_send(c, request, Replies) == _send_request(c, request, Replies)

\* A method body up to its first transport call: the command builder
\* raises, or the request goes out.
Send(c, built, Replies) ==
    IF built.err # "none" THEN Exit(c, Raise(built.err))
    ELSE IF variant = "sync" THEN _send_request(c, built.bytes, Replies)
    ELSE protocol_send(c, built.bytes, Replies)

\* A timeout that reports no bytes.
TimeoutWithoutBytes(bytes) == Raise("SerialTimeoutException")

\* raise SerialTimeoutException('... Last received bytes {}'.format(
\* [hex(a) for a in result])): the message lists the accumulated bytes.
TimeoutOutcome(bytes) ==
    [Raise("SerialTimeoutException") EXCEPT
        !.partial = [i \in 1..Len(bytes) |-> Hex(bytes[i])]]

\* The skip a caller handed to the exchange: zone_status passes the
\* device's zone_status_skip (or 0), every other method the default 0.
SkipArg(c) ==
    IF call[c].op = "zone_status" THEN get_device_config("zone_status_skip")
    ELSE 0

\* One turn of the read loop: read(1) returns nothing (the read timed out:
\* SerialTimeoutException listing the bytes so far) or one byte, which is
\* appended; the loop ends when the reply is framed.
ReadLoop(c, skip) ==
    /\ pc[c] = "reading"
    /\ IF port.rx = <<>>
       THEN /\ ExitWith(c, TimeoutOutcome(result[c]),
                        [port EXCEPT
                            !.owner = IF @ = c THEN NoOwner ELSE @,
                            !.clash = @ \/ port.owner # c])
            /\ io' = [io EXCEPT ![c].ops = Append(@, "read")]
       ELSE LET bytes == Append(result[c], Head(port.rx))
            IN  /\ port' = [port EXCEPT
                              !.rx = Tail(@),
                              !.owner = IF Framed(bytes, skip) /\ @ = c
                                        THEN NoOwner ELSE @,
                              !.clash = @ \/ port.owner # c]
                /\ io' = [io EXCEPT ![c].ops = Append(@, "read"),
                                    ![c].got = Append(@, Head(port.rx))]
                /\ result' = [result EXCEPT ![c] = bytes]
                /\ pc' = [pc EXCEPT ![c] =
                             IF Framed(bytes, skip) THEN "reply" ELSE "reading"]
                /\ UNCHANGED <<Config, call, lock, out, step, sent, warned>>

\* The blocking variant's loop.
ReadByte(c) == variant = "sync" /\ ReadLoop(c, SkipArg(c))

\* The suspend-based variant's loop, inside protocol.send.
ProtocolReadByte(c) == variant = "async" /\ ReadLoop(c, SkipArg(c))

\* -------------------------------------------------------------- operations

NoCall == [op |-> "none", zone |-> 0, flag |-> FALSE, val |-> 0,
           status |-> NoStatus]

\* A caller invokes a public method: the wrapper is entered with the
\* arguments bound, and waits for the lock.
Call(c, Menu) ==
    /\ pc[c] = "idle"
    /\ \E k \in Menu : call' = [call EXCEPT ![c] = k]
    /\ pc' = [pc EXCEPT ![c] = "waiting"]
    /\ UNCHANGED <<Config, lock, step, result, out, sent, warned, io, port>>

\* synchronized / locked_coro: the lock is taken, the method body starts.
Acquire(c) ==
    /\ pc[c] = "waiting"
    /\ LockAvailable(c)
    /\ lock' = c
    /\ pc' = [pc EXCEPT ![c] = "body"]
    /\ UNCHANGED <<Config, call, step, result, out, sent, warned, io, port>>

\* A method whose body is one exchange: the request goes out (or its
\* builder raises); once the reply is framed the method returns None.
OneExchange(c, built, Replies) ==
    \/ pc[c] = "body" /\ Send(c, built, Replies)
    \/ pc[c] = "reply" /\ Exit(c, ReturnedNone)

zone_status(c, Replies) ==
    /\ call[c].op = "zone_status"
    /\ \/ pc[c] = "body" /\ Send(c, _zone_status_cmd(call[c].zone), Replies)
       \/ pc[c] = "reply" /\ Exit(c, from_string(result[c]))

set_power(c, Replies) ==
    /\ call[c].op = "set_power"
    /\ OneExchange(c, _set_power_cmd(call[c].zone, call[c].flag), Replies)

set_mute(c, Replies) ==
    /\ call[c].op = "set_mute"
    /\ OneExchange(c, _set_mute_cmd(call[c].zone, call[c].flag), Replies)

set_volume(c, Replies) ==
    /\ call[c].op = "set_volume"
    /\ OneExchange(c, _set_volume_cmd(call[c].zone, call[c].val), Replies)

set_treble(c, Replies) ==
    /\ call[c].op = "set_treble"
    /\ OneExchange(c, _set_treble_cmd(call[c].zone, call[c].val), Replies)

set_bass(c, Replies) ==
    /\ call[c].op = "set_bass"
    /\ OneExchange(c, _set_bass_cmd(call[c].zone, call[c].val), Replies)

set_balance(c, Replies) ==
    /\ call[c].op = "set_balance"
    /\ OneExchange(c, _set_balance_cmd(call[c].zone, call[c].val), Replies)

set_source(c, Replies) ==
    /\ call[c].op = "set_source"
    /\ OneExchange(c, _set_source_cmd(call[c].zone, call[c].val), Replies)

all_off(c, Replies) ==
    /\ call[c].op = "all_off"
    /\ OneExchange(c, _command("all_zones_off", <<>>), Replies)

\* The inter-step pause of a multi-step sequence ends: the next turn of
\* the loop.
Pause(c) ==
    /\ pc[c] = "sleep"
    /\ lock' = LockDuringPause(c)
    /\ step' = [step EXCEPT ![c] = @ + 1]
    /\ pc' = [pc EXCEPT ![c] = "body"]
    /\ UNCHANGED <<Config, call, result, out, sent, warned, io, port>>

\* A step's reply is in: the step is judged (warning or not), the pause
\* begins.
StepDone(c, mismatch) ==
    /\ pc[c] = "reply"
    /\ warned' = [warned EXCEPT ![c] = IF mismatch THEN @ \cup {step[c]} ELSE @]
    /\ pc' = [pc EXCEPT ![c] = "sleep"]
    /\ UNCHANGED <<Config, call, lock, step, result, out, sent, io, port>>

\* set_commands[command](amp_type, zone, status[command])
RestoreCmd(command, zone, status) ==
    IF command \notin DOMAIN status THEN Raised("KeyError")
    ELSE CASE command = "power"   -> _set_power_cmd(zone, status.power)
           [] command = "mute"    -> _set_mute_cmd(zone, status.mute)
           [] command = "volume"  -> _set_volume_cmd(zone, status.volume)
           [] command = "treble"  -> _set_treble_cmd(zone, status.treble)
           [] command = "bass"    -> _set_bass_cmd(zone, status.bass)
           [] command = "balance" -> _set_balance_cmd(zone, status.balance)
           [] command = "source"  -> _set_source_cmd(zone, status.source)
           [] OTHER               -> Raised("KeyError")

\* AmpControlAsync.restore_zone
restore_zone_async(c, Replies) ==
    LET status == call[c].status
        restore_commands ==
            IF get_protocol_config("has_restore_zone")
            THEN get_protocol_config("restore_zone") ELSE <<>>
    IN  /\ variant = "async"
        /\ call[c].op = "restore_zone"
        /\ \/ /\ pc[c] = "body"
              /\ IF Len(restore_commands) = 0 \/ step[c] > Len(restore_commands)
                 THEN Exit(c, ReturnedNone)
                 ELSE Send(c, RestoreCmd(restore_commands[step[c]],
                                         status.zone, status), Replies)
           \/ StepDone(c, result[c] # get_protocol_config("restore_success"))

\* AmpControlSync.restore_zone: each entry of the restore list is called
\* as a function; the entries are the operation names the suspend-based
\* variant looks up in set_commands, and calling a str is a TypeError.
\* Iterating a missing list (None) is a TypeError too.
restore_zone_sync(c) ==
    /\ variant = "sync"
    /\ call[c].op = "restore_zone"
    /\ pc[c] = "body"
    /\ IF ~get_protocol_config("has_restore_zone")
       THEN Exit(c, Raise("TypeError"))
       ELSE IF Len(get_protocol_config("restore_zone")) = 0
       THEN Exit(c, ReturnedNone)
       ELSE Exit(c, Raise("TypeError"))

\* AmpControlSync._zone_status_manual: each sub-command name is handed to
\* _zone_status_cmd as the zone, and a name is no declared zone.
_zone_status_manual_sync(c) ==
    /\ variant = "sync"
    /\ call[c].op = "_zone_status_manual"
    /\ pc[c] = "body"
    /\ IF Len(get_protocol_config("zone_status_commands")) = 0
       THEN Exit(c, Returned(<<>>))
       ELSE Exit(c, Raise("AssertionError"))

\* AmpControlAsync._zone_status_manual: status.copy(match.groupdict()) is
\* dict.copy with an argument, a TypeError; a step that does not match
\* logs a warning and pauses.
_zone_status_manual_async(c, Replies) ==
    LET commands == get_protocol_config("zone_status_commands")
        pattern == get_protocol_config("responses")[commands[step[c]]]
    IN  /\ variant = "async"
        /\ call[c].op = "_zone_status_manual"
        /\ \/ /\ pc[c] = "body"
              /\ IF step[c] > Len(commands)
                 THEN Exit(c, Returned(<<>>))
                 ELSE Send(c, _command(commands[step[c]], <<>>), Replies)
           \/ /\ pc[c] = "reply"
              /\ IF re_search(pattern, result[c]).ok
                 THEN Exit(c, Raise("TypeError"))
                 ELSE StepDone(c, TRUE)

\* ------------------------------------------------------------- re-entrancy

\* A zone_status whose body starts by calling _zone_status_manual.
ManualFromStatus(op) ==
    IF op = "zone_status" THEN <<"_zone_status_manual">> ELSE <<>>

\* The decorated methods of its own instance that a method's body calls:
\* none.  The one such call, zone_status handing over to
\* _zone_status_manual as its first statement, is commented out.
NestedCalls(op) == <<>>

\* threading.RLock can be taken again by the thread that holds it;
\* asyncio.Lock cannot be taken again by anyone while it is held.
Reentrant == variant = "sync"
CanAcquire(c) == LockAvailable(c) \/ (Reentrant /\ lock = c)

\* The wrapper has the lock and calls the method: its body begins, or its
\* first statement calls a decorated method, whose wrapper now asks for
\* the lock while this one holds it.
FuncCalled(c) ==
    /\ lock' = c
    /\ IF NestedCalls(call[c].op) = <<>>
       THEN /\ pc' = [pc EXCEPT ![c] = "body"]
            /\ UNCHANGED call
       ELSE /\ call' = [call EXCEPT ![c].op = Head(NestedCalls(call[c].op))]
            /\ UNCHANGED pc
    /\ UNCHANGED <<Config, step, result, out, sent, warned, io, port>>

\* get_amp_controller.synchronized: with lock: return func(...)
synchronized(c) ==
    /\ variant = "sync"
    /\ pc[c] = "waiting"
    /\ CanAcquire(c)
    /\ FuncCalled(c)

\* async_get_amp_controller.locked_coro: async with lock: return await coro(...)
locked_coro(c) ==
    /\ variant = "async"
    /\ pc[c] = "waiting"
    /\ CanAcquire(c)
    /\ FuncCalled(c)

\* ------------------------------------------------------------ construction

\* DEVICE_CONFIG[amp_type]['rs232'] as the registry declares it.
DeclaredSerial == [xantech8 |-> [baudrate |-> 9600, timeout |-> 2]]

\* No serial_config_overrides (the default {}), and one that raises the
\* baud rate.
NoOverrides == <<>>
FastOverrides == [baudrate |-> 115200]

\* dict.update: the overrides win field by field.
Updated(config, overrides) ==
    [k \in DOMAIN config \cup DOMAIN overrides |->
        IF k \in DOMAIN overrides THEN overrides[k] ELSE config[k]]

\* A factory that accepts any type.
AnySupported(amp_type) == TRUE

\* amp_type in SUPPORTED_AMP_TYPES (= DEVICE_CONFIG.keys())
Supported(amp_type) == amp_type \in DOMAIN registry

\* One lock shared by every controller.
SharedLock(n) == 1

\* lock = RLock() / asyncio.Lock() in the factory's body: a new lock
\* object for each call, the n existing ones aside.
NewLock(n) == n + 1

\* The controller state outside the factories.
Machine == <<variant, device, protocol, lock, pc, call, step, result, out,
             sent, warned, io, port>>

\* What a factory call gave its caller: a controller of some kind with its
\* effective serial configuration, lock and opened port; or None.
Controller(kind, amp_type, overrides, serial_config, lock_id, port_id) ==
    [kind |-> kind, amp_type |-> amp_type, overrides |-> overrides,
     serial_config |-> serial_config, lock |-> lock_id, port |-> port_id]
NoController(kind, amp_type, overrides) ==
    Controller(kind, amp_type, overrides, <<>>, 0, 0)

\* The body shared by get_amp_controller and async_get_amp_controller: an
\* unsupported type logs an error and returns None; otherwise the lock is
\* created, the type's serial configuration is fetched from the registry
\* and updated in place with the overrides, and the port is opened with it.
Construct(kind, amp_type, serial_config_overrides) ==
    /\ Len(controllers) < MaxBuilt
    /\ IF ~Supported(amp_type)
       THEN /\ controllers' = Append(controllers, NoController("None", amp_type,
                                                   serial_config_overrides))
            /\ UNCHANGED <<registry, locks>>
       ELSE IF amp_type \notin DOMAIN registry
       THEN /\ controllers' = Append(controllers, NoController("KeyError", amp_type,
                                                   serial_config_overrides))
            /\ UNCHANGED <<registry, locks>>
       ELSE LET lock_id == NewLock(Len(locks))
                serial_config ==
                    IF serial_config_overrides # NoOverrides
                    THEN Updated(registry[amp_type], serial_config_overrides)
                    ELSE registry[amp_type]
            IN  /\ locks' = IF lock_id > Len(locks)
                            THEN Append(locks, NoOwner) ELSE locks
                /\ registry' = [registry EXCEPT ![amp_type] = serial_config]
                /\ controllers' = Append(controllers,
                      Controller(kind, amp_type, serial_config_overrides,
                                 serial_config, lock_id, Len(controllers) + 1))
    /\ UNCHANGED <<Machine, user>>

get_amp_controller(amp_type, serial_config_overrides) ==
    Construct("sync", amp_type, serial_config_overrides)

async_get_amp_controller(amp_type, serial_config_overrides) ==
    Construct("async", amp_type, serial_config_overrides)

NotUsing == [inst |-> 0, at |-> "idle"]

\* The controllers a caller can call.
Usable == {i \in 1..Len(controllers) : controllers[i].kind \in {"sync", "async"}}

\* A caller calls a public method of controller i: the wrapper is entered.
Enter(c, i) ==
    /\ user[c].at = "idle"
    /\ i \in Usable
    /\ user' = [user EXCEPT ![c] = [inst |-> i, at |-> "waiting"]]
    /\ UNCHANGED <<Machine, registry, controllers, locks>>

\* with lock: the lock of the controller the method belongs to is taken.
Take(c) ==
    /\ user[c].at = "waiting"
    /\ locks[controllers[user[c].inst].lock] = NoOwner
    /\ locks' = [locks EXCEPT ![controllers[user[c].inst].lock] = c]
    /\ user' = [user EXCEPT ![c].at = "exchange"]
    /\ UNCHANGED <<Machine, registry, controllers>>

\* The method's exchange on the controller's own port ends: the lock is
\* released.
Finish(c) ==
    /\ user[c].at = "exchange"
    /\ locks' = [locks EXCEPT ![controllers[user[c].inst].lock] = NoOwner]
    /\ user' = [user EXCEPT ![c] = NotUsing]
    /\ UNCHANGED <<Machine, registry, controllers>>

\* ------------------------------------------------------------ environment

\* The magnitudes a caller may pass for a field with the given maximum.
Magnitudes(wide, maximum) ==
    IF wide THEN (0 - Margin)..(maximum + Margin) ELSE {maximum + Margin}

\* The calls callers may make: every public operation, with zones, flags,
\* sources and restore statuses drawn from the given sets.
Calls(Zones, Flags, wide, Sources, Statuses) ==
    {[NoCall EXCEPT !.op = "zone_status", !.zone = z] : z \in Zones}
    \cup {[NoCall EXCEPT !.op = "_zone_status_manual", !.zone = z] : z \in Zones}
    \cup {[NoCall EXCEPT !.op = o, !.zone = z, !.flag = f] :
              o \in {"set_power", "set_mute"}, z \in Zones, f \in Flags}
    \cup {[NoCall EXCEPT !.op = "set_volume", !.zone = z, !.val = v] :
              z \in Zones, v \in Magnitudes(wide, DeviceDescriptor.max_volume)}
    \cup {[NoCall EXCEPT !.op = "set_treble", !.zone = z, !.val = v] :
              z \in Zones, v \in Magnitudes(wide, DeviceDescriptor.max_treble)}
    \cup {[NoCall EXCEPT !.op = "set_bass", !.zone = z, !.val = v] :
              z \in Zones, v \in Magnitudes(wide, DeviceDescriptor.max_bass)}
    \cup {[NoCall EXCEPT !.op = "set_balance", !.zone = z, !.val = v] :
              z \in Zones, v \in Magnitudes(wide, DeviceDescriptor.max_balance)}
    \cup {[NoCall EXCEPT !.op = "set_source", !.zone = z, !.val = v] :
              z \in Zones, v \in Sources}
    \cup {[NoCall EXCEPT !.op = "all_off"]}
    \cup {[NoCall EXCEPT !.op = "restore_zone", !.status = st] : st \in Statuses}

GoodStatus == [zone |-> 11, power |-> TRUE, volume |-> 20, source |-> 1]

\* Concurrency: every operation once, with arguments the device declares.
ConcMenu == Calls({11}, {TRUE}, FALSE, {1}, {GoodStatus})
\* The device acknowledges, or stays silent.
ConcReplies == {AckReply, <<>>}

IdlePort == [rx |-> <<>>, nwrites |-> 0, owner |-> NoOwner, clash |-> FALSE]

\* The controller as get_amp_controller / async_get_amp_controller
\* returns it: lock free, nothing sent, no call under way.
InitWith(Variants, Devices, Protocols) ==
    /\ variant \in Variants
    /\ device \in Devices
    /\ protocol \in Protocols
    /\ lock = NoOwner
    /\ pc = [c \in Callers |-> "idle"]
    /\ call = [c \in Callers |-> NoCall]
    /\ step = [c \in Callers |-> 1]
    /\ result = [c \in Callers |-> <<>>]
    /\ out = [c \in Callers |-> NoOutcome]
    /\ sent = [c \in Callers |-> <<>>]
    /\ warned = [c \in Callers |-> {}]
    /\ io = [c \in Callers |-> [ops |-> <<>>, got |-> <<>>]]
    /\ port = IdlePort
    /\ registry = DeclaredSerial
    /\ controllers = <<>>
    /\ locks = <<>>
    /\ user = [c \in Callers |-> NotUsing]

\* What a caller inside a call can do next.
Progress(c, Replies) ==
    \/ Acquire(c)
    \/ zone_status(c, Replies)
    \/ set_power(c, Replies)
    \/ set_mute(c, Replies)
    \/ set_volume(c, Replies)
    \/ set_treble(c, Replies)
    \/ set_bass(c, Replies)
    \/ set_balance(c, Replies)
    \/ set_source(c, Replies)
    \/ all_off(c, Replies)
    \/ restore_zone_sync(c)
    \/ restore_zone_async(c, Replies)
    \/ _zone_status_manual_sync(c)
    \/ _zone_status_manual_async(c, Replies)
    \/ Pause(c)
    \/ ReadByte(c)
    \/ ProtocolReadByte(c)

\* Protocols whose extras declare an empty restore list, or none.
EmptyRestoreProtocol == [ProtocolDescriptor EXCEPT !.restore_zone = <<>>]
NoRestoreProtocol ==
    [ProtocolDescriptor EXCEPT !.has_restore_zone = FALSE, !.restore_zone = <<>>]

\* Statuses handed to restore_zone: an undeclared zone, an undeclared source.
BadZoneStatus == [GoodStatus EXCEPT !.zone = 99]
BadSourceStatus == [GoodStatus EXCEPT !.source = 9]

\* One caller, every operation, arguments inside and outside what the
\* device declares.
OpsMenu ==
    Calls({11, 12, 99}, BOOLEAN, TRUE, {0, 1, 3, 4, 9},
          {GoodStatus, BadZoneStatus, BadSourceStatus})

\* All byte strings of up to n bytes over the given alphabet.
RECURSIVE Streams(_, _)
Streams(Alphabet, n) ==
    IF n = 0 THEN {<<>>}
    ELSE LET shorter == Streams(Alphabet, n - 1)
         IN  shorter \cup {Append(b, ch) : b \in shorter, ch \in Alphabet}

\* Framing: the device sends any short stream of terminator and payload
\* bytes, or stalls in the middle of a status line.
StalledReply == <<"Z", ",", "1", "1", ",">>
FramerReplies == Streams({"\r", "\n", "A"}, MaxStream) \cup {StalledReply}
FramerDevices ==
    {[DeviceDescriptor EXCEPT !.zone_status_skip = k] : k \in 0..MaxSkip}
FramerProtocols ==
    {[ProtocolDescriptor EXCEPT !.response_eol = eol] :
        eol \in {<<"\r">>, <<"\r", "\n">>}}

\* Decoding: status lines with every spelling of the power token, and
\* replies that are no status line.
StatusLine(zone, power, volume, source) ==
    <<"Z", ",">> \o zone \o <<",">> \o power \o <<",">> \o volume
        \o <<",">> \o source \o <<"\r">>
DecodeReplies ==
    {StatusLine(<<"1", "1">>, power, <<"2", "0">>, source) :
        power \in {<<"0">>, <<"1">>, <<"0", "0">>, <<"0", "1">>},
        source \in {<<"0", "0">>, <<"2">>}}
    \cup {AckReply, <<"\r">>, <<"Z", ",", "1", "1", "\r">>}
DecodeProtocols ==
    {[ProtocolDescriptor EXCEPT !.status_translation = t] :
        t \in {NoTranslation, TranslateToTrue, TranslateToToken}}
DecodeMenu == {[NoCall EXCEPT !.op = "zone_status", !.zone = 11]}

\* Ranges: status lines whose zone, volume and source tokens lie inside
\* and outside what the device declares, decoded with a pattern of four
\* groups and with one of two.
ShortPattern == [first |-> "Z", fields |-> <<"zone", "power">>]
RangeReplies ==
    {StatusLine(zone, <<"0", "1">>, volume, source) :
        zone \in {<<"1", "1">>, <<"7", "7">>},
        volume \in {<<"2", "0">>, <<"9", "9">>},
        source \in {<<"2">>, <<"9">>}}
RangeProtocols ==
    {[ProtocolDescriptor EXCEPT !.zone_status = p, !.status_translation = t] :
        p \in {StatusPattern, ShortPattern},
        t \in {NoTranslation, TranslateToToken}}

\* Stale input: a device that sends a byte after the terminator of its
\* reply, which is still in the input buffer when the next request goes
\* out; a whole acknowledgement; a reply that stalls.
StaleReplies == {AckReply, NakReply \o <<"A">>, <<"O">>}
StaleMenu ==
    {[NoCall EXCEPT !.op = "set_power", !.zone = z, !.flag = TRUE] :
        z \in {11, 12}}

\* Manual status: replies to the power and volume sub-commands, replies
\* that match neither pattern, and silence.
ManualReplies ==
    {<<"P", ",", "1", "\r">>, <<"P", ",", "0", "\r">>,
     <<"V", ",", "2", "0", "\r">>, AckReply, NakReply, <<>>}
ManualMenu ==
    {[NoCall EXCEPT !.op = "_zone_status_manual", !.zone = z] : z \in {11, 12}}

\* Re-entrancy: callers of zone_status and _zone_status_manual on one
\* controller; the device acknowledges or stays silent.
NestMenu ==
    {[NoCall EXCEPT !.op = op, !.zone = 11] :
        op \in {"zone_status", "_zone_status_manual"}}
NestReplies == {AckReply, <<>>}

Init == InitWith({"sync", "async"}, {DeviceDescriptor}, {ProtocolDescriptor})

Next == \E c \in Callers : Call(c, ConcMenu) \/ Progress(c, ConcReplies)

\* Callers of one controller run concurrently.
Spec == Init /\ [][Next]_vars

\* A caller inside a call keeps running: threads are scheduled, awaited
\* coroutines resume, and a read returns within the port's timeout.
FairSpec == Spec /\ \A c \in Callers : WF_vars(Progress(c, ConcReplies))

\* ------------------------------------------------------- claims: exclusivity

SetOps == {"set_power", "set_mute", "set_volume", "set_treble", "set_bass",
           "set_balance", "set_source"}
MultiStepOps == {"restore_zone", "_zone_status_manual"}

\* The caller is inside the decorated method, lock taken.
InBody(c) == pc[c] \in {"body", "reading", "reply", "sleep"}

\* The caller's exchange is in flight: request written, reply not yet
\* framed, no timeout yet.
InExchange(c) == pc[c] = "reading"

RECURSIVE SumOver(_, _)
SumOver(f, S) ==
    IF S = {} THEN 0
    ELSE LET x == CHOOSE y \in S : TRUE IN f[x] + SumOver(f, S \ {x})

\* C1: with any number of concurrent callers on one controller, at most
\* one exchange is in flight at any time, no write or read of one caller
\* falls between another caller's write and the end of that caller's
\* exchange, and N callers that each ran one set-operation leave exactly N
\* writes on the transport, one per caller.
C1_OneExchangeInFlight ==
    /\ \A c, d \in Callers : InExchange(c) /\ InExchange(d) => c = d
    /\ \A c \in Callers : InExchange(c) => port.owner = c
    /\ ~port.clash
    /\ port.nwrites = SumOver([c \in Callers |-> Len(sent[c])], Callers)
    /\ (\A c \in Callers : pc[c] = "done" /\ call[c].op \in SetOps)
          => /\ port.nwrites = NCallers
             /\ \A c \in Callers : Len(sent[c]) = 1

\* Two callers ran set-operations concurrently: one waited for the lock
\* while the other's exchange was in flight.
C1_Witness ==
    \E c, d \in Callers :
        /\ c # d
        /\ call[c].op \in SetOps /\ call[d].op \in SetOps
        /\ InExchange(c)
        /\ pc[d] = "waiting"

\* C2: every public operation holds the instance lock whenever it is
\* inside its body or touches the transport, no longer holds it once it has
\* ended (by return, decode failure, precondition violation or timeout),
\* and a caller waiting for the lock eventually gets it: it stops waiting
\* only by taking the lock, and it does not wait forever.
C2_LockHeldAndReleased ==
    /\ [](\A c \in Callers :
            /\ InBody(c) => lock = c
            /\ port.owner = c => lock = c
            /\ pc[c] \in {"idle", "waiting", "done"} => lock # c)
    /\ [][\A c \in Callers :
            pc[c] = "waiting" /\ pc'[c] # "waiting" => lock' = c]_vars
    /\ \A c \in Callers : []<>(pc[c] # "waiting")

\* A call ended by an exception and the caller that was waiting behind it
\* now holds the lock.
C2_Witness ==
    \E c, d \in Callers :
        /\ c # d
        /\ pc[c] = "done" /\ out[c].kind = "raise"
        /\ out[c].err = "SerialTimeoutException"
        /\ InBody(d) /\ lock = d

\* C3: a multi-step sequence (restore_zone, the manual status fetch) holds
\* the lock from its first command to its last step, pauses included: while
\* it runs no other caller is inside a method or has an exchange in flight.
C3_SequenceAtomic ==
    \A c \in Callers :
        call[c].op \in MultiStepOps /\ InBody(c) =>
            /\ lock = c
            /\ \A d \in Callers \ {c} : ~InBody(d)
            /\ port.owner \in {NoOwner, c}

\* restore_zone pauses between its first and second step while another
\* caller waits for the lock.
C3_Witness ==
    \E c, d \in Callers :
        /\ c # d
        /\ call[c].op = "restore_zone"
        /\ pc[c] = "sleep" /\ step[c] = 1 /\ Len(sent[c]) = 1
        /\ pc[d] = "waiting"

\* ------------------------------------------------------- single-caller runs

InitOps ==
    InitWith({"sync", "async"}, {DeviceDescriptor},
             {ProtocolDescriptor, EmptyRestoreProtocol, NoRestoreProtocol})
NextOps == Call(1, OpsMenu) \/ Progress(1, ConcReplies)
\* One caller runs any one operation with any arguments.
SpecOps == InitOps /\ [][NextOps]_vars

InitFramer == InitWith({"sync", "async"}, FramerDevices, FramerProtocols)
NextFramer == Call(1, ConcMenu) \/ Progress(1, FramerReplies)
\* One caller runs any one operation against a device that sends any
\* stream, with any declared skip and terminator.
SpecFramer == InitFramer /\ [][NextFramer]_vars

InitDecode == InitWith({"sync", "async"}, {DeviceDescriptor}, DecodeProtocols)
NextDecode ==
    \/ Call(1, DecodeMenu)
    \/ Acquire(1)
    \/ zone_status(1, DecodeReplies)
    \/ ReadByte(1)
    \/ ProtocolReadByte(1)
\* One caller queries a zone's status under each translation table.
SpecDecode == InitDecode /\ [][NextDecode]_vars

InitRange == InitWith({"sync", "async"}, {DeviceDescriptor}, RangeProtocols)
NextRange ==
    \/ Call(1, DecodeMenu)
    \/ Acquire(1)
    \/ zone_status(1, RangeReplies)
    \/ ReadByte(1)
    \/ ProtocolReadByte(1)
SpecRange == InitRange /\ [][NextRange]_vars

InitStale == InitWith({"sync"}, {DeviceDescriptor}, {ProtocolDescriptor})
NextStale ==
    \E c \in Callers :
        \/ Call(c, StaleMenu)
        \/ Acquire(c)
        \/ set_power(c, StaleReplies)
        \/ ReadByte(c)
SpecStale == InitStale /\ [][NextStale]_vars

InitManual ==
    InitWith({"sync", "async"}, {DeviceDescriptor}, {ProtocolDescriptor})
NextManual ==
    \/ Call(1, ManualMenu)
    \/ Acquire(1)
    \/ _zone_status_manual_sync(1)
    \/ _zone_status_manual_async(1, ManualReplies)
    \/ Pause(1)
    \/ ProtocolReadByte(1)
SpecManual == InitManual /\ [][NextManual]_vars

InitNest == InitWith({"sync", "async"}, {DeviceDescriptor}, {ProtocolDescriptor})
Running(c) ==
    \/ synchronized(c)
    \/ locked_coro(c)
    \/ zone_status(c, NestReplies)
    \/ _zone_status_manual_sync(c)
    \/ _zone_status_manual_async(c, NestReplies)
    \/ Pause(c)
    \/ ReadByte(c)
    \/ ProtocolReadByte(c)
NextNest == \E c \in Callers : Call(c, NestMenu) \/ Running(c)

\* Callers of one controller; a caller inside a call keeps running.
SpecNest ==
    InitNest /\ [][NextNest]_vars /\ \A c \in Callers : WF_vars(Running(c))

\* The types and overrides factories are called with.
AmpTypes == {"xantech8", "bogus"}
Overrides == {NoOverrides, FastOverrides}

InitBuild == InitWith({"sync"}, {DeviceDescriptor}, {ProtocolDescriptor})
NextBuild ==
    \/ \E t \in AmpTypes, o \in Overrides : get_amp_controller(t, o)
    \/ \E t \in AmpTypes, o \in Overrides : async_get_amp_controller(t, o)
    \/ \E c \in Callers, i \in 1..MaxBuilt : Enter(c, i)
    \/ \E c \in Callers : Take(c)
    \/ \E c \in Callers : Finish(c)
\* Controllers are constructed, and callers use the constructed ones.
SpecBuild == InitBuild /\ [][NextBuild]_vars

\* ------------------------------------------------- claims: preconditions

ZoneOps == SetOps \cup {"zone_status", "restore_zone"}
MagnitudeOps == {"set_volume", "set_treble", "set_bass", "set_balance"}

\* The zone a call names.
ZoneArg(c) ==
    IF call[c].op = "restore_zone" THEN call[c].status.zone ELSE call[c].zone

\* The call went past its command builder.
PastBuilder(c) == pc[c] \in {"reading", "reply", "sleep", "done"}

\* The comma-separated fields of a written request.
RECURSIVE Split(_)
Split(bytes) ==
    IF \A i \in 1..Len(bytes) : bytes[i] # "," THEN <<bytes>>
    ELSE LET i == CHOOSE j \in 1..Len(bytes) :
                      bytes[j] = "," /\ \A k \in 1..(j - 1) : bytes[k] # ","
         IN  <<SubSeq(bytes, 1, i - 1)>> \o Split(SubSeq(bytes, i + 1, Len(bytes)))

SignedNumber(field) ==
    IF Len(field) > 0 /\ Head(field) = "-" THEN 0 - ParseInt(Tail(field))
    ELSE ParseInt(field)

\* The number a written set-command carries after the zone.
WrittenValue(request) == SignedNumber(Split(request)[2])

DeclaredMax(op) ==
    CASE op = "set_volume"  -> device.max_volume
      [] op = "set_treble"  -> device.max_treble
      [] op = "set_bass"    -> device.max_bass
      [] op = "set_balance" -> device.max_balance

Clamp(v, lo, hi) == IF v < lo THEN lo ELSE IF v > hi THEN hi ELSE v

\* C4 (as stated): for a zone the device does not declare, every
\* zone-taking operation, restore_zone included, ends with a precondition
\* violation (AssertionError) and performs no buffer reset, write, flush or
\* read.
C4_UndeclaredZoneRejected ==
    \A c \in Callers :
        call[c].op \in ZoneOps /\ ZoneArg(c) \notin device.zones =>
            /\ sent[c] = <<>> /\ io[c].ops = <<>> /\ port.nwrites = 0
            /\ pc[c] = "done" =>
                  out[c].kind = "raise" /\ out[c].err = "AssertionError"

\* C5: set_volume, set_treble, set_bass and set_balance with a declared
\* zone and any magnitude v, negative or above the maximum, write a command
\* that carries clamp(v, 0, max) of that field's declared maximum, and are
\* never rejected.
C5_MagnitudeClamped ==
    \A c \in Callers :
        call[c].op \in MagnitudeOps /\ call[c].zone \in device.zones =>
            /\ pc[c] = "done" => out[c].err # "AssertionError"
            /\ PastBuilder(c) =>
                  /\ Len(sent[c]) = 1
                  /\ WrittenValue(sent[c][1]) =
                        Clamp(call[c].val, 0, DeclaredMax(call[c].op))

\* set_volume(11, 50) wrote volume 38.
C5_Witness ==
    \E c \in Callers :
        /\ call[c].op = "set_volume" /\ call[c].zone = 11 /\ call[c].val = 50
        /\ device.max_volume = 38
        /\ pc[c] = "reply"
        /\ WrittenValue(sent[c][1]) = 38

\* C6: set_source with a declared zone and a source outside the declared
\* source set ends with a precondition violation (AssertionError) and
\* writes nothing; a declared source goes out unchanged, never clamped.
C6_UndeclaredSourceRejected ==
    \A c \in Callers :
        call[c].op = "set_source" /\ call[c].zone \in device.zones =>
            IF call[c].val \in device.sources
            THEN PastBuilder(c) =>
                    Len(sent[c]) = 1 /\ WrittenValue(sent[c][1]) = call[c].val
            ELSE /\ sent[c] = <<>> /\ io[c].ops = <<>> /\ port.nwrites = 0
                 /\ pc[c] \notin {"reading", "reply", "sleep"}
                 /\ pc[c] = "done" =>
                       out[c].kind = "raise" /\ out[c].err = "AssertionError"

\* set_source(11, 9) ended with AssertionError, nothing written.
C6_Witness ==
    \E c \in Callers :
        /\ call[c].op = "set_source" /\ call[c].zone = 11 /\ call[c].val = 9
        /\ pc[c] = "done" /\ out[c].err = "AssertionError"
        /\ sent[c] = <<>>

\* ------------------------------------------------------- claims: framing

\* bytes ends with the terminator.
EndsWith(bytes, eol) ==
    /\ Len(bytes) >= Len(eol)
    /\ SubSeq(bytes, Len(bytes) - Len(eol) + 1, Len(bytes)) = eol

\* The first n bytes are a place where the framer may stop.
StopsAt(bytes, n, skip) ==
    n > skip /\ EndsWith(SubSeq(bytes, 1, n), protocol.response_eol)

\* The reads the port served in the caller's current exchange.
Reads(c) == Len(io[c].ops) - Len(NewExchange)

\* C7: the framer stops at the first accumulator length n with n > skip
\* and the terminator as its last bytes: while it reads, no length so far
\* was such an n; when it stops, the length is such an n, no shorter one
\* was, and it has read exactly the n bytes it returns, none past them.
C7_FramerStopsAtFirstTerminator ==
    \A c \in Callers :
        /\ pc[c] = "reading" =>
              /\ result[c] = io[c].got
              /\ \A n \in 1..Len(result[c]) : ~StopsAt(result[c], n, SkipArg(c))
        /\ pc[c] = "reply" =>
              /\ result[c] = io[c].got
              /\ StopsAt(result[c], Len(result[c]), SkipArg(c))
              /\ \A n \in 1..(Len(result[c]) - 1) :
                    ~StopsAt(result[c], n, SkipArg(c))
              /\ Reads(c) = Len(result[c])

\* A status reply whose first skip bytes hold a terminator: the framer
\* read on, stopped at a later terminator and left the rest unread.
C7_Witness ==
    \E c \in Callers :
        /\ pc[c] = "reply"
        /\ SkipArg(c) > 0
        /\ \E n \in 1..SkipArg(c) :
              EndsWith(SubSeq(result[c], 1, n), protocol.response_eol)
        /\ port.rx # <<>>

\* The bytes replies are made of.
ReplyBytes == {"\r", "\n", "A", "Z", ",", "1", "O", "K"}
\* The byte a hex code of the timeout message stands for.
FromHex(code) == CHOOSE ch \in ReplyBytes : Hex(ch) = code

\* A read of the caller's current exchange returned no data.
ReadTimedOut(c) == Reads(c) = Len(io[c].got) + 1

\* Steps a call may write: one, or one per entry of its command list.
MaxWrites(c) ==
    CASE call[c].op = "restore_zone" -> Len(protocol.restore_zone)
      [] call[c].op = "_zone_status_manual" -> Len(protocol.zone_status_commands)
      [] OTHER -> 1

\* C8: a read that yields no data before the reply is framed ends the call
\* with SerialTimeoutException listing exactly the bytes accumulated so far;
\* the exception reaches the caller, nothing else raises it, and no request
\* is written again.
C8_TimeoutCarriesPartial ==
    \A c \in Callers :
        /\ ReadTimedOut(c) =>
              /\ pc[c] = "done"
              /\ out[c].kind = "raise" /\ out[c].err = "SerialTimeoutException"
              /\ Len(out[c].partial) = Len(io[c].got)
              /\ \A i \in 1..Len(io[c].got) :
                    FromHex(out[c].partial[i]) = io[c].got[i]
              /\ \A n \in 1..Len(io[c].got) : ~StopsAt(io[c].got, n, SkipArg(c))
              /\ Len(sent[c]) <= MaxWrites(c)
              /\ \A i, j \in 1..Len(sent[c]) : sent[c][i] = sent[c][j] => i = j
        /\ out[c].err = "SerialTimeoutException" => ReadTimedOut(c)

\* zone_status(11): the device stalled after Z,11, and the call ended with
\* a timeout listing those five bytes.
C8_Witness ==
    \E c \in Callers :
        /\ call[c].op = "zone_status" /\ call[c].zone = 11
        /\ pc[c] = "done" /\ out[c].err = "SerialTimeoutException"
        /\ io[c].got = StalledReply
        /\ Len(out[c].partial) = 5
        /\ Len(sent[c]) = 1

\* ------------------------------------------------------ claims: decoding

\* The groups of the zone-status pattern in the reply the caller received.
RawStatus(c) == re_search(protocol.zone_status, io[c].got)

\* zone_status got a whole reply and has ended.
StatusDecoded(c) ==
    /\ call[c].op = "zone_status"
    /\ pc[c] = "done"
    /\ Len(sent[c]) = 1
    /\ out[c].err # "SerialTimeoutException"

\* C9 (as stated): when the reply does not match the zone-status pattern,
\* the decoder raises nothing: zone_status returns None and the lock is
\* released.
C9_NoMatchReturnsNone ==
    \A c \in Callers :
        StatusDecoded(c) /\ ~RawStatus(c).ok =>
            /\ out[c].kind = "return" /\ out[c].absent
            /\ lock # c

\* C10 (as stated): for a matching reply, each boolean field of the
\* decoded status is true iff its raw reply token is "1" or "01", whatever
\* the translation table; the integer fields are the tokens' values.
C10_BooleanFromRawToken ==
    \A c \in Callers :
        StatusDecoded(c) /\ RawStatus(c).ok =>
            LET raw == groupdict(RawStatus(c))
            IN  /\ out[c].kind = "return" /\ ~out[c].absent
                /\ DOMAIN out[c].status = DOMAIN raw
                /\ \A key \in DOMAIN raw \cap BoolKeys :
                      out[c].status[key] =
                          BoolV(raw[key].s \in {<<"1">>, <<"0", "1">>})
                /\ \A key \in DOMAIN raw \cap IntKeys :
                      out[c].status[key] = IntV(ParseInt(raw[key].s))

\* Whether a number is a value the device declares for a field.
InDeclared(field, n) ==
    CASE field = "zone"    -> n \in device.zones
      [] field = "source"  -> n \in device.sources
      [] field = "volume"  -> n \in 0..device.max_volume
      [] field = "treble"  -> n \in 0..device.max_treble
      [] field = "bass"    -> n \in 0..device.max_bass
      [] field = "balance" -> n \in 0..device.max_balance
      [] OTHER             -> TRUE

\* The fields the zone-status pattern captures.
Captured == {protocol.zone_status.fields[k] :
                k \in 1..Len(protocol.zone_status.fields)}

\* The reply token the pattern captured for a field.
Token(c, field) ==
    RawStatus(c).groups[CHOOSE k \in 1..Len(protocol.zone_status.fields) :
                           protocol.zone_status.fields[k] = field]

\* C16 (as stated): every decoded status has its numeric fields inside
\* the device's declared bounds, its zone and source in the declared sets,
\* and no field the pattern does not capture.
C16_StatusWithinDeclaredRanges ==
    \A c \in Callers :
        StatusDecoded(c) /\ RawStatus(c).ok =>
            /\ out[c].kind = "return" /\ ~out[c].absent
            /\ DOMAIN out[c].status = Captured
            /\ \A field \in Captured \cap IntKeys :
                  InDeclared(field, out[c].status[field].i)

\* C16 (amended): a decoded status holds exactly the fields the pattern
\* captures, none defaulted, and each numeric field is an integer that is
\* a declared value exactly when the token the device sent is one: the
\* decoder bounds nothing.
C16_StatusAsDeviceReplied ==
    \A c \in Callers :
        StatusDecoded(c) /\ RawStatus(c).ok =>
            /\ out[c].kind = "return" /\ ~out[c].absent
            /\ DOMAIN out[c].status = Captured
            /\ \A field \in Captured \cap IntKeys :
                  /\ out[c].status[field].t = "int"
                  /\ InDeclared(field, out[c].status[field].i)
                         <=> InDeclared(field, ParseInt(Token(c, field)))

\* A two-group pattern decoded a reply of an undeclared zone: the record
\* has zone 77 and no volume.
C16_Witness ==
    \E c \in Callers :
        /\ StatusDecoded(c) /\ RawStatus(c).ok
        /\ out[c].kind = "return" /\ ~out[c].absent
        /\ "volume" \notin DOMAIN out[c].status
        /\ out[c].status["zone"] = IntV(77)

\* text with its leading zeros removed, as str(int(text)) renders it.
RECURSIVE StripZeros(_)
StripZeros(text) ==
    IF Len(text) > 1 /\ Head(text) = "0" THEN StripZeros(Tail(text))
    ELSE text

C11_UnknownTypeGivesNoController ==
    \A i \in 1..Len(controllers) :
        IF controllers[i].amp_type \in DOMAIN DeclaredSerial
        THEN controllers[i].kind \in {"sync", "async"} /\ controllers[i].port = i
        ELSE /\ controllers[i].kind = "None"
             /\ controllers[i].port = 0 /\ controllers[i].lock = 0
             /\ i \notin Usable
             /\ \A c \in Callers : user[c].inst # i

\* A construction with an unregistered type gave None, and a construction
\* with a registered one gave a controller.
C11_Witness ==
    \E i, j \in 1..Len(controllers) :
        /\ controllers[i].amp_type = "bogus" /\ controllers[i].kind = "None"
        /\ controllers[j].amp_type = "xantech8" /\ controllers[j].port # 0

\* C14 (as stated): constructions leave the device descriptor as
\* declared, and every controller's effective serial configuration is the
\* declared default overridden by that controller's own overrides only.
C14_DescriptorUnchanged ==
    /\ registry = DeclaredSerial
    /\ \A i \in Usable :
          controllers[i].serial_config =
              Updated(DeclaredSerial[controllers[i].amp_type],
                      controllers[i].overrides)

\* C15: controllers from different factory calls have different locks and
\* different ports; a caller inside an exchange holds its controller's lock,
\* and a caller waiting for a controller's lock is kept waiting only by a
\* caller of that same controller.
C15_InstancesIndependent ==
    /\ \A i, j \in Usable :
          i # j => /\ controllers[i].lock # controllers[j].lock
                   /\ controllers[i].port # controllers[j].port
    /\ \A c \in Callers :
          user[c].at = "exchange" => locks[controllers[user[c].inst].lock] = c
    /\ \A c \in Callers :
          LET holder == locks[controllers[user[c].inst].lock]
          IN  user[c].at = "waiting" /\ holder # NoOwner =>
                  /\ user[holder].at = "exchange"
                  /\ user[holder].inst = user[c].inst

\* Two callers are inside exchanges on two controllers at the same time.
C15_Witness ==
    \E c, d \in Callers :
        /\ c # d
        /\ user[c].at = "exchange" /\ user[d].at = "exchange"
        /\ user[c].inst # user[d].inst

\* ------------------------------------------------------- claims: restore

\* The device acknowledges a restore step, answers something else, or
\* stays silent.
RestoreReplies == {AckReply, NakReply, <<>>}
RestoreMenu ==
    {[NoCall EXCEPT !.op = "restore_zone", !.status = st] :
        st \in {GoodStatus, BadZoneStatus, BadSourceStatus}}

InitRestore ==
    InitWith({"sync", "async"}, {DeviceDescriptor},
             {ProtocolDescriptor, EmptyRestoreProtocol, NoRestoreProtocol})
NextRestore ==
    \/ Call(1, RestoreMenu)
    \/ Acquire(1)
    \/ restore_zone_sync(1)
    \/ restore_zone_async(1, RestoreReplies)
    \/ Pause(1)
    \/ ProtocolReadByte(1)
\* One caller restores a zone, under each restore list.
SpecRestore == InitRestore /\ [][NextRestore]_vars

\* The restore list the protocol declares (none: the empty list).
RestoreList ==
    IF protocol.has_restore_zone THEN protocol.restore_zone ELSE <<>>

\* restore_zone has ended, and not by a read timeout.
RestoreEnded(c) ==
    /\ call[c].op = "restore_zone"
    /\ pc[c] = "done"
    /\ out[c].err # "SerialTimeoutException"

\* The status names a declared zone and a declared source.
StatusDeclared(status) ==
    status.zone \in device.zones /\ status.source \in device.sources

\* C12 (as stated): in both variants restore_zone, given a status of
\* declared values and a non-empty restore list, sends one set-command per
\* entry of the list, in the list's order, each carrying the status's value,
\* and returns without raising whatever the replies were.
C12_RestoreInOrderBestEffort ==
    \A c \in Callers :
        RestoreEnded(c) /\ StatusDeclared(call[c].status)
                /\ Len(RestoreList) > 0 =>
            /\ out[c].kind = "return"
            /\ Len(sent[c]) = Len(RestoreList)
            /\ \A k \in 1..Len(RestoreList) :
                  sent[c][k] = RestoreCmd(RestoreList[k], call[c].status.zone,
                                          call[c].status).bytes
            /\ warned[c] \subseteq 1..Len(RestoreList)

\* C13 (as stated): in both variants restore_zone, when the protocol's
\* restore list is missing or empty, returns without error and performs no
\* transport I/O.
C13_NoRestoreListReturns ==
    \A c \in Callers :
        call[c].op = "restore_zone" /\ Len(RestoreList) = 0 =>
            /\ sent[c] = <<>> /\ io[c].ops = <<>> /\ port.nwrites = 0
            /\ pc[c] = "done" => out[c].kind = "return"

\* The requests the suspend-based restore_zone writes when no read times
\* out: the list's commands in order, up to the first whose builder raises.
RECURSIVE RestoreRequests(_, _)
RestoreRequests(list, status) ==
    IF Len(list) = 0 THEN <<>>
    ELSE LET cmd == RestoreCmd(Head(list), status.zone, status)
         IN  IF cmd.err # "none" THEN <<>>
             ELSE <<cmd.bytes>> \o RestoreRequests(Tail(list), status)

\* ... and the error it ends with ("none": it returns).
RECURSIVE RestoreError(_, _)
RestoreError(list, status) ==
    IF Len(list) = 0 THEN "none"
    ELSE LET cmd == RestoreCmd(Head(list), status.zone, status)
         IN  IF cmd.err # "none" THEN cmd.err
             ELSE RestoreError(Tail(list), status)

\* C18 (as stated): the blocking and the suspend-based restore_zone, given
\* the same descriptors and the same status, write the same requests and
\* end alike: whichever variant ran, a finished restore_zone wrote what the
\* suspend-based one writes and ended as it ends.
C18_VariantsAgree ==
    \A c \in Callers :
        RestoreEnded(c) =>
            /\ sent[c] = RestoreRequests(RestoreList, call[c].status)
            /\ out[c].err = RestoreError(RestoreList, call[c].status)

\* ------------------------------------------------- claims: exchange order

\* Whether a sequence starts with another.
IsPrefix(short, long) ==
    /\ Len(short) <= Len(long)
    /\ SubSeq(long, 1, Len(short)) = short

\* C19: one blocking exchange performs, in this order, the reset of the
\* output buffer, the reset of the input buffer, the write, the flush, and
\* then reads only; no byte that was in the input buffer before the write
\* is part of the reply: what was read is the start of the device's reply
\* to this request, and during the read loop what was read and what is
\* still buffered are together that reply.
C19_ResetsBeforeWrite ==
    \A c \in Callers :
        io[c].ops # <<>> =>
            /\ Len(io[c].ops) >= Len(NewExchange)
            /\ SubSeq(io[c].ops, 1, Len(NewExchange)) =
                   <<"reset_output_buffer", "reset_input_buffer",
                     "write", "flush">>
            /\ \A k \in (Len(NewExchange) + 1)..Len(io[c].ops) :
                  io[c].ops[k] = "read"
            /\ \E reply \in StaleReplies : IsPrefix(io[c].got, reply)
            /\ pc[c] = "reading" => io[c].got \o port.rx \in StaleReplies

\* A caller's exchange left a byte behind the terminator in the input
\* buffer; the next caller's exchange then read a whole acknowledgement.
C19_Witness ==
    \E c, d \in Callers :
        /\ c # d
        /\ pc[d] = "done" /\ io[d].got = NakReply
        /\ pc[c] = "reply" /\ io[c].got = AckReply
        /\ port.rx = <<>>

\* ------------------------------------------------- claims: manual status

\* _zone_status_manual has ended and no read timed out.
ManualEnded(c) ==
    /\ call[c].op = "_zone_status_manual"
    /\ pc[c] = "done"
    /\ out[c].err # "SerialTimeoutException"

\* The requests of the sub-commands, in the order the protocol lists them.
ManualRequests ==
    [k \in 1..Len(protocol.zone_status_commands) |->
        _command(protocol.zone_status_commands[k], <<>>).bytes]

\* C20 (the corrected intent): _zone_status_manual sends every sub-command
\* in order and returns the accumulated record, which holds the fields
\* parsed from each matching reply; here, those of the last reply.
C20_ManualStatusMerged ==
    \A c \in Callers :
        ManualEnded(c) =>
            /\ out[c].kind = "return" /\ ~out[c].absent
            /\ sent[c] = ManualRequests
            /\ LET last == protocol.zone_status_commands[Len(ManualRequests)]
                   match == re_search(protocol.responses[last], io[c].got)
               IN  match.ok =>
                       \A k \in 1..Len(match.fields) :
                           /\ match.fields[k] \in DOMAIN out[c].status
                           /\ out[c].status[match.fields[k]] =
                                  StrV(match.groups[k])

\* ------------------------------------------------ claims: restore failure

\* C22 (as stated): in both variants a restore_zone that meets a fatal
\* condition at step k (a read timeout, or a command builder's violated
\* precondition) raises it to the caller with the commands of the steps
\* before k written, none of a later step written, and the lock released;
\* without a fatal condition it writes every command and returns.
C22_FatalStepEndsRestore ==
    \A c \in Callers :
        call[c].op = "restore_zone" /\ pc[c] = "done"
                /\ Len(RestoreList) > 0 =>
            LET full == RestoreRequests(RestoreList, call[c].status)
                err == RestoreError(RestoreList, call[c].status)
            IN  /\ lock # c
                /\ IsPrefix(sent[c], full)
                /\ out[c].kind = "raise" =>
                      \/ /\ out[c].err = "SerialTimeoutException"
                         /\ Len(sent[c]) >= 1
                      \/ /\ err # "none"
                         /\ out[c].err = err
                         /\ sent[c] = full
                /\ out[c].kind = "return" => err = "none" /\ sent[c] = full

\* ------------------------------------------------- claims: re-entrancy

\* C21: no call deadlocks on its own instance lock: a caller that waits
\* for the lock while holding it can take it again (the blocking
\* variant's lock is re-entrant; in the suspend-based variant no holder
\* ever asks for the lock), and every call that was made ends.
C21_NoSelfDeadlock ==
    /\ [](\A c \in Callers : pc[c] = "waiting" /\ lock = c => CanAcquire(c))
    /\ \A c \in Callers : (pc[c] = "waiting") ~> (pc[c] = "done")

\* A coroutine is inside zone_status, past its first statement, holding
\* the lock, while another caller waits for it.
C21_Witness ==
    \E c, d \in Callers :
        /\ variant = "async"
        /\ call[c].op = "zone_status" /\ pc[c] = "reply" /\ lock = c
        /\ pc[d] = "waiting"

====
